---- MODULE Spec2Model ----
(***************************************************************************)
(* A model of the bft Brainf*ck interpreter: the tokenizer and the bracket *)
(* validator of bft_types (BFprogram), the virtual machine of bft_interp   *)
(* (BFVM) and the driver run_bft of the binary.                            *)
(*                                                                         *)
(* Bytes are their u8 values.  Indices kept by the program (the stack and  *)
(* the pairs of validate_brackets, the position of interpret's loop) are   *)
(* 0-based as in the source; TLA+ sequences are 1-based, so instruction    *)
(* idx of a program is src[idx + 1].                                       *)
(***************************************************************************)
EXTENDS Integers, Sequences, FiniteSets

VARIABLES
    data,         \* the bytes handed to BFprogram::new (the file's contents)
    file_ok,      \* whether std::fs::read of the program file succeeds
    source_name,  \* the path / label handed to BFprogram::new
    prog,         \* the BFprogram object, NoProgram before construction
    ret,          \* what the last validate_brackets call returned
    calls,        \* number of validate_brackets calls made on prog
    vm_args,      \* the arguments of the last BFVM::new call
    vm,           \* the BFVM object, NoVM before construction
    idx,          \* number of iterations interpret's for loop has made
    out,          \* the lines printed to standard output
    pc,           \* the position of the caller
    runResult     \* what run_bft returned

inputVars == <<data, file_ok, source_name>>

progVars == <<prog, ret, calls>>

vmVars == <<vm_args, vm>>

runVars == <<idx, out, pc, runResult>>

vars == <<inputVars, progVars, vmVars, runVars>>

-----------------------------------------------------------------------------
(* Bounds of the model *)

\* Longest input of the validator's specification (Spec).
MaxLen == 6

\* Longest input of the tokenizer's specification (SpecTok).
MaxTokLen == 3

\* Longest program file of the driver's specification (SpecRun).
MaxRunLen == 4

\* Most validate_brackets calls made on one program.
MaxCalls == 2

\* Largest capacity requested of BFVM::new (SpecVM).
MaxCapacity == 64

\* Input bytes of SpecTok: line feed, carriage return, space, the 8 opcodes.
TokBytes == {10, 13, 32, 43, 44, 45, 46, 60, 62, 91, 93}

\* Input bytes of Spec: line feed, '+', '[' and ']'.
Bytes == {10, 43, 91, 93}

\* Input bytes of SpecRun: line feed, '+', '-', '<', '[' and ']'.
RunBytes == {10, 43, 45, 60, 91, 93}

SourceNames == {"mod.test", "doc.test"}

SeqsUpTo(S, n) == UNION {[1..k -> S] : k \in 0..n}

-----------------------------------------------------------------------------
(* Option<T> *)

None == [some |-> FALSE]

Some(x) == [some |-> TRUE, val |-> x]

-----------------------------------------------------------------------------
(* bft_types: Instruction *)

Instruction ==
    {"MoveLeft", "MoveRight", "Increment", "Decrement",
     "Input", "Output", "BeginLoop", "EndLoop"}

from_byte_no_input(c) ==
    CASE c = 60 -> Some("MoveLeft")
      [] c = 62 -> Some("MoveRight")
      [] c = 43 -> Some("Increment")
      [] c = 45 -> Some("Decrement")
      [] c = 46 -> Some("Output")
      [] c = 91 -> Some("BeginLoop")
      [] c = 93 -> Some("EndLoop")
      [] OTHER  -> None

from_byte(c) ==
    CASE c = 60 -> Some("MoveLeft")
      [] c = 62 -> Some("MoveRight")
      [] c = 43 -> Some("Increment")
      [] c = 45 -> Some("Decrement")
      [] c = 44 -> Some("Input")
      [] c = 46 -> Some("Output")
      [] c = 91 -> Some("BeginLoop")
      [] c = 93 -> Some("EndLoop")
      [] OTHER  -> None

InstructionDisplay(inst) ==
    CASE inst = "MoveLeft"  -> "Move left one location"
      [] inst = "MoveRight" -> "Move right one location"
      [] inst = "Increment" -> "Increment current location"
      [] inst = "Decrement" -> "Decrement current location"
      [] inst = "Input"     -> "Accept one byte of input"
      [] inst = "Output"    -> "Output the current byte"
      [] inst = "BeginLoop" -> "Start looping"
      [] inst = "EndLoop"   -> "Finish looping"

-----------------------------------------------------------------------------
(* bft_types: InputInstruction *)

InputInstruction(inst, line_number, char_number) ==
    [inst |-> inst, line_number |-> line_number, char_number |-> char_number]

\* location() formats "{line}:{char}"; the pair keeps both numbers apart.
location(i) == <<i.line_number, i.char_number>>

-----------------------------------------------------------------------------
(* bft_types: BFprogram::new *)

NoProgram == [constructed |-> FALSE]

\* data.split(|c| *c == b'\n'): the pieces between line feeds, in order; a
\* slice without a line feed (the empty one too) is a single piece.
RECURSIVE split(_)
split(d) ==
    IF \E i \in 1..Len(d) : d[i] = 10
    THEN LET i == CHOOSE k \in 1..Len(d) :
                      d[k] = 10 /\ \A j \in 1..(k - 1) : d[j] # 10
         IN  <<SubSeq(d, 1, i - 1)>> \o split(SubSeq(d, i + 1, Len(d)))
    ELSE <<d>>

\* Fault injection for push_instruction: the column counts from 0.
push_instruction_col0(src, inst, line_number, char_number) ==
    Append(src, InputInstruction(inst, line_number + 1, char_number))

\* src.push(InputInstruction { inst, line_number + 1, char_number + 1 })
push_instruction(src, inst, line_number, char_number) ==
    Append(src, InputInstruction(inst, line_number + 1, char_number + 1))

\* for (char_number, c) in line.iter().enumerate() { ... }
RECURSIVE scan_line(_, _, _, _)
scan_line(src, line, line_number, char_number) ==
    IF char_number >= Len(line)
    THEN src
    ELSE LET r == from_byte(line[char_number + 1])
         IN  scan_line(IF r.some
                       THEN push_instruction(src, r.val, line_number, char_number)
                       ELSE src,
                       line, line_number, char_number + 1)

\* for (line_number, line) in data.split(..).enumerate() { ... }
RECURSIVE scan_lines(_, _, _)
scan_lines(src, lines, line_number) ==
    IF line_number >= Len(lines)
    THEN src
    ELSE scan_lines(scan_line(src, lines[line_number + 1], line_number, 0),
                    lines, line_number + 1)

BFprogram_new(name, d) ==
    [constructed |-> TRUE,
     source_name |-> name,
     src         |-> scan_lines(<<>>, split(d), 0),
     brackets    |-> <<>>]

-----------------------------------------------------------------------------
(* bft_types: BFprogram::validate_brackets *)

Ok == [tag |-> "Ok"]

ExtraOpeningBracket(name, line, col) ==
    [tag |-> "ExtraOpeningBracket", source |-> name, line |-> line, col |-> col]

ExtraClosingBracket(name, line, col) ==
    [tag |-> "ExtraClosingBracket", source |-> name, line |-> line, col |-> col]

NoReturn == [tag |-> "NoReturn"]

\* Fault injection for stack_pop: the oldest entry is taken (a queue, not a stack).
stack_pop_front(stack) ==
    IF stack = <<>>
    THEN [some |-> FALSE, rest |-> stack]
    ELSE [some |-> TRUE, val |-> Head(stack), rest |-> Tail(stack)]

\* Vec::pop: the last entry if there is one, and the vector without it.
stack_pop(stack) ==
    IF stack = <<>>
    THEN [some |-> FALSE, rest |-> stack]
    ELSE [some |-> TRUE, val |-> stack[Len(stack)],
          rest |-> SubSeq(stack, 1, Len(stack) - 1)]

\* Fault injection for end_loop: an EndLoop met with an empty stack is passed over.
end_loop_skip(p, i, stack, brackets) ==
    LET popped == stack_pop(stack)
    IN  IF popped.some
        THEN [err |-> FALSE, stack |-> popped.rest,
              brackets |-> Append(brackets, <<popped.val, i>>)]
        ELSE [err |-> FALSE, stack |-> stack, brackets |-> brackets]

\* The EndLoop arm of the scan at instruction i.
end_loop(p, i, stack, brackets) ==
    LET popped == stack_pop(stack)
        inst   == p.src[i + 1]
    IN  IF popped.some
        THEN [err |-> FALSE, stack |-> popped.rest,
              brackets |-> Append(brackets, <<popped.val, i>>)]
        ELSE [err |-> TRUE,
              ret |-> ExtraClosingBracket(p.source_name, inst.line_number,
                                          inst.char_number)]

\* for (idx, inst) in self.src.iter().enumerate() { match ... }
RECURSIVE scan_brackets(_, _, _, _)
scan_brackets(p, i, stack, brackets) ==
    IF i >= Len(p.src)
    THEN [err |-> FALSE, stack |-> stack, brackets |-> brackets]
    ELSE LET inst == p.src[i + 1].inst
         IN  CASE inst = "BeginLoop" ->
                    scan_brackets(p, i + 1, Append(stack, i), brackets)
               [] inst = "EndLoop" ->
                    LET r == end_loop(p, i, stack, brackets)
                    IN  IF r.err THEN r
                        ELSE scan_brackets(p, i + 1, r.stack, r.brackets)
               [] OTHER ->
                    scan_brackets(p, i + 1, stack, brackets)

\* Fault injection for store_brackets: the new pairs are added to the stored ones.
store_brackets_extend(p, brackets) ==
    [p EXCEPT !.brackets = p.brackets \o brackets]

\* self.brackets = brackets
store_brackets(p, brackets) ==
    [p EXCEPT !.brackets = brackets]

\* Fault injection for remaining_open: the first BeginLoop left open is reported.
remaining_open_first(stack) ==
    stack_pop_front(stack)

\* if let Some(idx) = stack.pop(), after the scan
remaining_open(stack) ==
    stack_pop(stack)

\* The call: the value returned and the program as the call leaves it.
validate_brackets(p) ==
    LET scanned == scan_brackets(p, 0, <<>>, <<>>)
    IN  IF scanned.err
        THEN [ret |-> scanned.ret, prog |-> p]
        ELSE LET popped == remaining_open(scanned.stack)
             IN  IF popped.some
                 THEN LET inst == p.src[popped.val + 1]
                      IN  [ret  |-> ExtraOpeningBracket(p.source_name,
                                                        inst.line_number,
                                                        inst.char_number),
                           prog |-> p]
                 ELSE [ret  |-> Ok,
                       prog |-> store_brackets(p, scanned.brackets)]

-----------------------------------------------------------------------------
(* bft_interp: BFVM *)

NoVM == [constructed |-> FALSE]

NoArgs == [called |-> FALSE]

DefaultCapacity == 30000

\* C::default() of the cell type; run_bft and the tests use u8.
CellDefault == 0

\* NonZeroUsize::new
NonZeroUsize_new(n) == IF n = 0 THEN None ELSE Some(n)

\* Fault injection for tape_capacity: an absent capacity gives no cells.
tape_capacity_zero(capacity) ==
    IF capacity.some THEN capacity.val ELSE 0

\* capacity.map_or(30000, NonZeroUsize::get)
tape_capacity(capacity) ==
    IF capacity.some THEN capacity.val ELSE DefaultCapacity

\* Vec::resize_with(n, f): cut to n entries, or filled up to n with f().
resize_with(tape, n, default) ==
    IF n <= Len(tape)
    THEN SubSeq(tape, 1, n)
    ELSE tape \o [k \in 1..(n - Len(tape)) |-> default]

BFVM_new(capacity, growable) ==
    [constructed |-> TRUE,
     tape        |-> resize_with(<<>>, tape_capacity(capacity), CellDefault),
     head        |-> 0,
     growable    |-> growable]

\* The line interpret prints for one instruction:
\* "[{:?}:{}] {}" of code.source(), inst.location(), inst.instruction().
interpret_line(code, inst) ==
    [source   |-> code.source_name,
     location |-> location(inst),
     text     |-> InstructionDisplay(inst.inst)]

-----------------------------------------------------------------------------
(* The BFprogram interface used by a caller: construct once, validate any   *)
(* number of times.                                                        *)

NoResult == [tag |-> "Running"]

InitWith(inputs) ==
    /\ data \in inputs
    /\ file_ok = TRUE
    /\ source_name \in SourceNames
    /\ prog = NoProgram
    /\ ret = NoReturn
    /\ calls = 0
    /\ vm_args = NoArgs
    /\ vm = NoVM
    /\ idx = 0
    /\ out = <<>>
    /\ pc = "caller"
    /\ runResult = NoResult

New ==
    /\ ~prog.constructed
    /\ prog' = BFprogram_new(source_name, data)
    /\ UNCHANGED <<inputVars, ret, calls, vmVars, runVars>>

ValidateBrackets ==
    /\ prog.constructed
    /\ calls < MaxCalls
    /\ LET r == validate_brackets(prog)
       IN  /\ prog' = r.prog
           /\ ret' = r.ret
    /\ calls' = calls + 1
    /\ UNCHANGED <<inputVars, vmVars, runVars>>

Init == InitWith(SeqsUpTo(Bytes, MaxLen))

Next == New \/ ValidateBrackets

Spec == Init /\ [][Next]_vars

\* The tokenizer alone, on inputs over every opcode.
InitTok == InitWith(SeqsUpTo(TokBytes, MaxTokLen))

NextTok == New

SpecTok == InitTok /\ [][NextTok]_vars

-----------------------------------------------------------------------------
(* BFVM::new called with a capacity that is absent or NonZeroUsize::new(n). *)

CapacityRequests ==
    {[given |-> FALSE]} \cup {[given |-> TRUE, n |-> n] : n \in 0..MaxCapacity}

\* The Option<NonZeroUsize> the caller hands over.
capacity_argument(req) ==
    IF req.given THEN NonZeroUsize_new(req.n) ELSE None

InitVM == InitWith({<<>>})

NewVM ==
    \E req \in CapacityRequests, growable \in BOOLEAN :
        /\ vm_args' = [called |-> TRUE, capacity |-> req, growable |-> growable]
        /\ vm' = BFVM_new(capacity_argument(req), growable)
        /\ UNCHANGED <<inputVars, progVars, runVars>>

NextVM == NewVM

SpecVM == InitVM /\ [][NextVM]_vars

-----------------------------------------------------------------------------
(* run_bft: load the file, validate, build the VM, interpret.              *)

IoError == [tag |-> "IoError"]

RunOk == [tag |-> "Ok"]

InitRun ==
    /\ file_ok \in BOOLEAN
    /\ data \in (IF file_ok THEN SeqsUpTo(RunBytes, MaxRunLen) ELSE {<<>>})
    /\ source_name \in SourceNames
    /\ prog = NoProgram
    /\ ret = NoReturn
    /\ calls = 0
    /\ vm_args = NoArgs
    /\ vm = NoVM
    /\ idx = 0
    /\ out = <<>>
    /\ pc = "from_file"
    /\ runResult = NoResult

\* let mut src = BFprogram::from_file(options.program.clone())?;
RunFromFile ==
    /\ pc = "from_file"
    /\ IF file_ok
       THEN /\ prog' = BFprogram_new(source_name, data)
            /\ pc' = "validate"
            /\ UNCHANGED runResult
       ELSE /\ runResult' = IoError
            /\ pc' = "returned"
            /\ UNCHANGED prog
    /\ UNCHANGED <<inputVars, ret, calls, vmVars, idx, out>>

\* Fault injection for propagate: the result of validation is dropped.
propagate_ignored(r) ==
    [pc |-> "new_vm", runResult |-> NoResult]

\* The ? on validate_brackets(): an Err is returned from run_bft at once.
propagate(r) ==
    IF r = Ok
    THEN [pc |-> "new_vm", runResult |-> NoResult]
    ELSE [pc |-> "returned", runResult |-> r]

\* src.validate_brackets()?;
RunValidate ==
    /\ pc = "validate"
    /\ LET r == validate_brackets(prog)
       IN  /\ prog' = r.prog
           /\ ret' = r.ret
           /\ pc' = propagate(r.ret).pc
           /\ runResult' = propagate(r.ret).runResult
    /\ calls' = calls + 1
    /\ UNCHANGED <<inputVars, vmVars, idx, out>>

\* let vm: BFVM<u8> = BFVM::new(None, false);
RunNewVM ==
    /\ pc = "new_vm"
    /\ vm_args' = [called |-> TRUE, capacity |-> [given |-> FALSE], growable |-> FALSE]
    /\ vm' = BFVM_new(None, FALSE)
    /\ pc' = "interpret"
    /\ UNCHANGED <<inputVars, progVars, idx, out, runResult>>

\* One turn of interpret's for loop: the instruction is printed.
InterpretStep ==
    /\ pc = "interpret"
    /\ idx < Len(prog.src)
    /\ out' = Append(out, interpret_line(prog, prog.src[idx + 1]))
    /\ idx' = idx + 1
    /\ UNCHANGED <<inputVars, progVars, vmVars, pc, runResult>>

\* interpret is through the instructions and returns; run_bft returns Ok(()).
RunReturn ==
    /\ pc = "interpret"
    /\ idx >= Len(prog.src)
    /\ pc' = "returned"
    /\ runResult' = RunOk
    /\ UNCHANGED <<inputVars, progVars, vmVars, idx, out>>

NextRun ==
    \/ RunFromFile
    \/ RunValidate
    \/ RunNewVM
    \/ InterpretStep
    \/ RunReturn

SpecRun == InitRun /\ [][NextRun]_vars

-----------------------------------------------------------------------------
(* What the properties speak of, stated on the input bytes and on the       *)
(* instruction sequence without the program's own operators.               *)

\* The bytes "<>+-,.[]".
Recognized == {60, 62, 43, 45, 44, 46, 91, 93}

\* Byte and the opcode it stands for.
OpcodeTable ==
    {<<60, "MoveLeft">>, <<62, "MoveRight">>, <<43, "Increment">>,
     <<45, "Decrement">>, <<44, "Input">>, <<46, "Output">>,
     <<91, "BeginLoop">>, <<93, "EndLoop">>}

\* 1-based positions of the recognized bytes of the input.
RecognizedAt == {i \in 1..Len(data) : data[i] \in Recognized}

\* Position of the last line feed before position p, 0 if there is none.
LineStart(p) ==
    LET lf == {j \in 1..(p - 1) : data[j] = 10}
    IN  IF lf = {} THEN 0 ELSE CHOOSE j \in lf : \A k \in lf : k <= j

LineFeedsBefore(p) == Cardinality({j \in 1..(p - 1) : data[j] = 10})

\* 0-based indices i..j of the instructions s holding opcode op.
CountIn(s, op, i, j) == Cardinality({k \in i..j : s[k + 1].inst = op})

\* More EndLoops than BeginLoops among instructions 0..j.
ClosesTooMany(s, j) ==
    CountIn(s, "EndLoop", 0, j) > CountIn(s, "BeginLoop", 0, j)

UnmatchedEnds(s) == {j \in 0..(Len(s) - 1) : ClosesTooMany(s, j)}

\* BeginLoops that no later EndLoop closes.
UnmatchedStarts(s) ==
    {i \in 0..(Len(s) - 1) :
        /\ s[i + 1].inst = "BeginLoop"
        /\ \A j \in i..(Len(s) - 1) :
              CountIn(s, "BeginLoop", i, j) > CountIn(s, "EndLoop", i, j)}

Least(S) == CHOOSE x \in S : \A y \in S : x <= y

Greatest(S) == CHOOSE x \in S : \A y \in S : y <= x

\* The BeginLoop an EndLoop at j closes: the nearest one before it with as
\* many BeginLoops as EndLoops in between.
MatchOf(s, j) ==
    Greatest({i \in 0..(j - 1) :
                /\ s[i + 1].inst = "BeginLoop"
                /\ CountIn(s, "BeginLoop", i + 1, j - 1)
                     = CountIn(s, "EndLoop", i + 1, j - 1)})

\* The pairs of a well-bracketed sequence, in the order the loops close.
TableOf(s) ==
    LET ends == {j \in 0..(Len(s) - 1) : s[j + 1].inst = "EndLoop"}
        nth(n) == CHOOSE j \in ends : Cardinality({k \in ends : k <= j}) = n
    IN  [n \in 1..Cardinality(ends) |-> <<MatchOf(s, nth(n)), nth(n)>>]

Nested(a, b) == a[1] < b[1] /\ b[2] < a[2]

Disjoint(a, b) == a[2] < b[1] \/ b[2] < a[1]

-----------------------------------------------------------------------------
\* C1: whenever validate_brackets returns Ok, the stored jump table holds,
\* for every loop instruction, exactly one pair (i, j) with instructions[i]
\* a BeginLoop, instructions[j] an EndLoop and i < j; every BeginLoop and
\* every EndLoop index is in exactly one pair, and two pairs are disjoint or
\* strictly nested.
C1_JumpTableMatched ==
    (prog.constructed /\ ret = Ok) =>
        LET s == prog.src
            b == prog.brackets
        IN  /\ \A n \in DOMAIN b :
                  /\ b[n][1] \in 0..(Len(s) - 1)
                  /\ b[n][2] \in 0..(Len(s) - 1)
                  /\ b[n][1] < b[n][2]
                  /\ s[b[n][1] + 1].inst = "BeginLoop"
                  /\ s[b[n][2] + 1].inst = "EndLoop"
            /\ \A x \in 0..(Len(s) - 1) :
                  s[x + 1].inst \in {"BeginLoop", "EndLoop"} =>
                      Cardinality({n \in DOMAIN b : b[n][1] = x \/ b[n][2] = x}) = 1
            /\ \A n, m \in DOMAIN b :
                  n # m => \/ Disjoint(b[n], b[m])
                           \/ Nested(b[n], b[m])
                           \/ Nested(b[m], b[n])

\* A validated program with a loop inside a loop and a loop after a loop.
C1_Witness ==
    /\ prog.constructed
    /\ ret = Ok
    /\ \E n, m \in DOMAIN prog.brackets : Nested(prog.brackets[n], prog.brackets[m])
    /\ \E n, m \in DOMAIN prog.brackets : Disjoint(prog.brackets[n], prog.brackets[m])

\* C2: when, scanning left to right, some EndLoop has no pending BeginLoop,
\* validate_brackets fails with ExtraClosingBracket carrying the source name
\* and the line and column of the first such EndLoop, whatever brackets
\* follow it.
C2_FirstUnmatchedEnd ==
    (prog.constructed /\ calls > 0 /\ UnmatchedEnds(prog.src) # {}) =>
        LET inst == prog.src[Least(UnmatchedEnds(prog.src)) + 1]
        IN  ret = [tag    |-> "ExtraClosingBracket",
                   source |-> source_name,
                   line   |-> inst.line_number,
                   col    |-> inst.char_number]

\* An unmatched EndLoop followed by a BeginLoop that is never closed and by
\* a second unmatched EndLoop.
C2_Witness ==
    /\ prog.constructed
    /\ calls > 0
    /\ ret.tag = "ExtraClosingBracket"
    /\ Cardinality(UnmatchedEnds(prog.src)) >= 2
    /\ \E i \in UnmatchedStarts(prog.src) : i > Least(UnmatchedEnds(prog.src))

\* C3: with no unmatched EndLoop but some BeginLoop left unclosed,
\* validate_brackets fails with ExtraOpeningBracket carrying the line and
\* column of the unmatched BeginLoop with the largest index (the last one
\* pushed that is still on the stack), not of the first one.
C3_InnermostUnmatchedStart ==
    (/\ prog.constructed
     /\ calls > 0
     /\ UnmatchedEnds(prog.src) = {}
     /\ UnmatchedStarts(prog.src) # {}) =>
        LET inst == prog.src[Greatest(UnmatchedStarts(prog.src)) + 1]
        IN  ret = [tag    |-> "ExtraOpeningBracket",
                   source |-> source_name,
                   line   |-> inst.line_number,
                   col    |-> inst.char_number]

\* Two BeginLoops left unclosed, with a closed loop in between.
C3_Witness ==
    /\ prog.constructed
    /\ calls > 0
    /\ ret.tag = "ExtraOpeningBracket"
    /\ Cardinality(UnmatchedStarts(prog.src)) >= 2
    /\ \E j \in 0..(Len(prog.src) - 1) : prog.src[j + 1].inst = "EndLoop"

\* C4: BFprogram::new produces as many instructions as the input has bytes
\* among the 8 recognized characters; no other byte produces an instruction
\* (an input without a recognized byte gives an empty sequence).
C4_InstructionCount ==
    prog.constructed =>
        /\ Len(prog.src) = Cardinality(RecognizedAt)
        /\ (RecognizedAt = {} => prog.src = <<>>)

\* An input mixing recognized bytes, an Input opcode among them, with others.
C4_Witness ==
    /\ prog.constructed
    /\ Len(prog.src) >= 2
    /\ Len(prog.src) < Len(data)
    /\ \E i \in 1..Len(data) : data[i] = 44

\* C5: the k-th instruction is the opcode of the k-th recognized byte, its
\* line number 1 plus the line feeds before that byte, its column number 1
\* plus the bytes between the start of its line and that byte.
C5_SourceLocation ==
    prog.constructed =>
        \A k \in 1..Len(prog.src) :
            \E p \in RecognizedAt :
                /\ Cardinality({q \in RecognizedAt : q <= p}) = k
                /\ <<data[p], prog.src[k].inst>> \in OpcodeTable
                /\ prog.src[k].line_number = 1 + LineFeedsBefore(p)
                /\ prog.src[k].char_number = p - LineStart(p)

\* An instruction on the second line, behind a byte that is no opcode.
C5_Witness ==
    /\ prog.constructed
    /\ \E k \in 1..Len(prog.src) :
          /\ prog.src[k].line_number = 2
          /\ prog.src[k].char_number = 2
          /\ data[Len(data) - 1] \notin Recognized

\* C10: a validate_brackets call never changes the instructions or the
\* source name; a failing call leaves the stored jump table as it was and a
\* successful one stores the table the instruction sequence determines.  So
\* the stored table is empty with no call having succeeded, or it is that
\* table, and validating a validated program again gives the same table.
C10_ValidationStable ==
    /\ [](prog.constructed =>
            \/ prog.brackets = <<>> /\ ret # Ok
            \/ prog.brackets = TableOf(prog.src))
    /\ [][(prog.constructed /\ calls' = calls + 1) =>
            /\ prog'.constructed
            /\ prog'.src = prog.src
            /\ prog'.source_name = prog.source_name
            /\ (ret' # Ok => prog'.brackets = prog.brackets)
            /\ (ret' = Ok => prog'.brackets = TableOf(prog.src))
            /\ (ret = Ok => ret' = Ok /\ prog'.brackets = prog.brackets)]_vars

\* A program with loops validated for the second time.
C10_Witness ==
    /\ prog.constructed
    /\ calls >= 2
    /\ ret = Ok
    /\ Len(prog.brackets) >= 2

\* C6: in a run of run_bft, interpret and its output never begin unless
\* bracket validation has completed successfully; when validation fails the
\* run ends with that error, and no interpreter step or output occurs.
C6_ValidateBeforeInterpret ==
    /\ (pc \in {"new_vm", "interpret"} \/ vm.constructed \/ idx > 0 \/ out # <<>>) =>
          (calls > 0 /\ ret = Ok)
    /\ ret.tag \in {"ExtraOpeningBracket", "ExtraClosingBracket"} =>
          /\ pc = "returned"
          /\ runResult = ret
          /\ ~vm.constructed
          /\ idx = 0
          /\ out = <<>>

\* A run over a program with instructions that ended on a bracket error.
C6_Witness ==
    /\ pc = "returned"
    /\ runResult.tag = "ExtraOpeningBracket"
    /\ Len(prog.src) >= 2
    /\ out = <<>>

TapeUnderflow == [tag |-> "TapeUnderflow"]

TapeOverflow == [tag |-> "TapeOverflow"]

\* C7: the data pointer never leaves the tape: a MoveLeft executed with the
\* data pointer at index 0 ends the run with TapeUnderflow, a MoveRight
\* executed at the last cell of a tape that may not grow ends it with
\* TapeOverflow.
C7_PointerStaysOnTape ==
    [][(pc = "interpret" /\ idx' = idx + 1) =>
          LET inst == prog.src[idx + 1].inst
          IN  /\ vm'.head \in 0..(Len(vm'.tape) - 1)
              /\ (inst = "MoveLeft" /\ vm.head = 0) =>
                    (pc' = "returned" /\ runResult' = TapeUnderflow)
              /\ (inst = "MoveRight" /\ ~vm.growable /\ vm.head = Len(vm.tape) - 1) =>
                    (pc' = "returned" /\ runResult' = TapeOverflow)]_vars

\* The EndLoop index paired with the BeginLoop at i, and the converse.
EndOf(i) == CHOOSE j \in 0..(Len(prog.src) - 1) :
                \E n \in DOMAIN prog.brackets : prog.brackets[n] = <<i, j>>

StartOf(j) == CHOOSE i \in 0..(Len(prog.src) - 1) :
                  \E n \in DOMAIN prog.brackets : prog.brackets[n] = <<i, j>>

\* C8: executing a validated program follows the loop rules: at a BeginLoop
\* with a zero current cell control passes beyond the matched EndLoop, and
\* at an EndLoop with a non-zero current cell control returns to the body of
\* the matched BeginLoop.
C8_LoopRules ==
    [][(pc = "interpret" /\ idx < Len(prog.src) /\ (idx' # idx \/ pc' # pc)) =>
          LET inst == prog.src[idx + 1].inst
              cell == vm.tape[vm.head + 1]
          IN  /\ (inst = "BeginLoop" /\ cell = 0) => idx' = EndOf(idx) + 1
              /\ (inst = "EndLoop" /\ cell # 0) => idx' = StartOf(idx) + 1]_vars

\* C9: BFVM::new gives a tape of exactly the requested number of cells when
\* that is not zero and of exactly 30000 cells when the capacity is absent
\* or was requested as 0, every cell 0, the head 0 and the growable flag as
\* given.
C9_NewVM ==
    (vm.constructed /\ vm_args.called) =>
        LET req == vm_args.capacity
        IN  /\ Len(vm.tape) = (IF req.given /\ req.n # 0 THEN req.n ELSE 30000)
            /\ \A k \in 1..Len(vm.tape) : vm.tape[k] = 0
            /\ vm.head = 0
            /\ vm.growable = vm_args.growable

\* A growable VM built from a capacity requested as 0.
C9_Witness ==
    /\ vm.constructed
    /\ vm_args.called
    /\ vm_args.capacity = [given |-> TRUE, n |-> 0]
    /\ vm_args.growable
    /\ Len(vm.tape) = 30000

====
